---- MODULE Spec2Model ----
(***************************************************************************)
(* Model of the real-time notification subsystem of the sales-engagement   *)
(* platform: app/services/websocket_manager.py (WebSocketConnectionManager)*)
(* driven by app/api/v1/websocket.py (websocket_endpoint).                 *)
(*                                                                         *)
(* The program is a single asyncio event loop: a coroutine runs without    *)
(* interruption until an await really suspends it.  The manager's handlers *)
(* (connect, subscribe, unsubscribe, heartbeat, disconnect, the fan-outs,  *)
(* one scan of the heartbeat monitor) are each one action; the bus         *)
(* listener tasks are tasks of their own and take their own steps.         *)
(***************************************************************************)
EXTENDS Integers, Sequences, FiniteSets, TLC

\* ------------------------------------------------------------- bounds
\* inputs of one run: connections accepted, client frames handled,
\* notifications sent and clock steps, all together
MaxEvents == 4

\* messages published to the bus in a run in which they are counted apart
MaxMessages == 2

\* timedelta(minutes=2) of _heartbeat_monitor; the clock counts minutes
TimeoutMinutes == 2

\* user ids
Users == {1, 2}

\* the tenant the token of user u names (user_claims.tenant_id)
TenantOf(u) == IF u = 1 THEN "tenantA" ELSE "tenantB"

Tenants == {TenantOf(u) : u \in Users}

\* connection_id = f"{user_id}_{uuid.uuid4().hex[:8]}": the user id and a
\* suffix; the n-th accepted connection draws the suffix n
ConnIds == Users \X (1 .. MaxEvents)

UserOfId(cid) == cid[1]

ChannelNames == <<"user:1:notifications", "user:2:notifications">>

\* f"user:{user_id}:notifications"
UserChannel(u) == ChannelNames[u]

TenantBroadcast == "tenant:broadcast"

\* the channel names a client frame may carry
Channels == {UserChannel(u) : u \in Users} \cup {TenantBroadcast}

\* ------------------------------------------------------- dictionaries
\* A Python dict is a function whose DOMAIN is its key set.
EmptyDict == [k \in {} |-> {}]

Put(d, k, v) == [x \in (DOMAIN d) \cup {k} |-> IF x = k THEN v ELSE d[x]]

Del(d, k) == [x \in (DOMAIN d) \ {k} |-> d[x]]

\* d.get(k, set())
GetSet(d, k) == IF k \in DOMAIN d THEN d[k] ELSE {}

Range(s) == {s[i] : i \in DOMAIN s}

\* list.remove(x): drops the first occurrence of x
RemoveFirst(s, x) ==
    IF x \notin Range(s) THEN s
    ELSE LET i == CHOOSE j \in DOMAIN s :
                      s[j] = x /\ \A k \in 1 .. (j - 1) : s[k] # x
         IN  SubSeq(s, 1, i - 1) \o SubSeq(s, i + 1, Len(s))

\* ------------------------------------------------------------- frames
\* WebSocketMessage: a type and a data payload
Frame(t, d) == [type |-> t, data |-> d]

ConnectFrame(cid, u) ==
    Frame("connect", [connection_id |-> cid, user_id |-> u,
                      tenant_id |-> TenantOf(u), status |-> "connected"])

AckFrame(action, channel) ==
    Frame("ack", [action |-> action, channel |-> channel, status |-> "success"])

HeartbeatFrame == Frame("heartbeat", [status |-> "alive"])

ErrorFrame(code) == Frame("error", [error_code |-> code])

NotificationFrame(n) == Frame("notification", n)

VARIABLES
    mgr,        \* the WebSocketConnectionManager instance (websocket_manager)
    tasks,      \* the bus listener tasks that have not finished
    monitor,    \* the _heartbeat_monitor task: "none", "sleeping" or "done"
    endpoint,   \* where the websocket_endpoint task of every connection is
    transport,  \* the client side of every connection: "open" or "dead"
    received,   \* the frames every client has been sent, in order
    lastFan,    \* the last fan-out call: its arguments and its id set
    lastScan,   \* the time of the monitor's last scan, -1 before the first
    storeFailed, \* the ids whose Redis delete raised in the monitor's last scan
    lastInput,  \* the last client frame handled: its connection, frame and ok
    published,  \* the last message published to the bus
    inbox,      \* the bus messages every listener task has still to process
    busLog,     \* what the listener tasks have logged: skipped messages, failures
    fans,       \* the send_to_channel call every listener task is suspended in
    scan,       \* the timed-out list the monitor is suspended in the loop over
    now,        \* datetime.utcnow(), in minutes
    numEvents   \* the inputs so far

vars == <<mgr, tasks, monitor, endpoint, transport, received, lastFan,
          lastScan, storeFailed, lastInput, published, inbox, busLog, fans,
          scan, now, numEvents>>

\* ------------------------------------------------------------ manager
\* WebSocketConnectionManager.__init__
NewManager ==
    [active_connections    |-> {},
     connection_info       |-> EmptyDict,
     user_connections      |-> EmptyDict,
     tenant_connections    |-> EmptyDict,
     channel_subscriptions |-> EmptyDict,
     redis_tasks           |-> EmptyDict,
     heartbeat_task        |-> FALSE,
     initialized           |-> FALSE]

\* ConnectionInfo(connection_id, user_id, tenant_id, connected_at, last_heartbeat)
ConnectionInfo(cid, u, t, at) ==
    [connection_id |-> cid, user_id |-> u, tenant_id |-> t,
     connected_at |-> at, last_heartbeat |-> at, subscriptions |-> <<>>]

\* connect, lines 72-87: store the socket and the info, add to both indices
register(m, cid, u, t, at) ==
    [m EXCEPT
        !.active_connections = @ \cup {cid},
        !.connection_info = Put(@, cid, ConnectionInfo(cid, u, t, at)),
        !.user_connections = Put(@, u, GetSet(@, u) \cup {cid}),
        !.tenant_connections = Put(@, t, GetSet(@, t) \cup {cid})]

\* unindex without line 115: the tenant index keeps the id
unindex_keeps_tenant(m, cid) ==
    LET info == m.connection_info[cid]
        chans == Range(info.subscriptions)
        uc == Put(m.user_connections, info.user_id,
                  GetSet(m.user_connections, info.user_id) \ {cid})
        cs == [ch \in (DOMAIN m.channel_subscriptions) \cup chans |->
                  IF ch \in chans
                  THEN GetSet(m.channel_subscriptions, ch) \ {cid}
                  ELSE m.channel_subscriptions[ch]]
    IN  [m EXCEPT
            !.user_connections =
                IF uc[info.user_id] = {} THEN Del(uc, info.user_id) ELSE uc,
            !.channel_subscriptions = cs]

\* disconnect, lines 113-125: the index clean-up done when the info exists
unindex(m, cid) ==
    LET info == m.connection_info[cid]
        chans == Range(info.subscriptions)
        uc == Put(m.user_connections, info.user_id,
                  GetSet(m.user_connections, info.user_id) \ {cid})
        tc == Put(m.tenant_connections, info.tenant_id,
                  GetSet(m.tenant_connections, info.tenant_id) \ {cid})
        cs == [ch \in (DOMAIN m.channel_subscriptions) \cup chans |->
                  IF ch \in chans
                  THEN GetSet(m.channel_subscriptions, ch) \ {cid}
                  ELSE m.channel_subscriptions[ch]]
    IN  [m EXCEPT
            !.user_connections =
                IF uc[info.user_id] = {} THEN Del(uc, info.user_id) ELSE uc,
            !.tenant_connections =
                IF tc[info.tenant_id] = {} THEN Del(tc, info.tenant_id) ELSE tc,
            !.channel_subscriptions = cs]

\* disconnect without line 128: the socket stays in active_connections
disconnect_keeps_socket(m, cid) ==
    IF cid \notin m.active_connections THEN m
    ELSE LET m1 == IF cid \in DOMAIN m.connection_info
                   THEN unindex(m, cid) ELSE m
         IN  [m1 EXCEPT !.connection_info = Del(@, cid)]

\* disconnect, lines 106-135 (the Redis delete that follows changes nothing
\* of the manager and its errors are swallowed)
disconnect(m, cid) ==
    IF cid \notin m.active_connections THEN m
    ELSE LET m1 == IF cid \in DOMAIN m.connection_info
                   THEN unindex(m, cid) ELSE m
         IN  [m1 EXCEPT
                 !.active_connections = @ \ {cid},
                 !.connection_info = Del(@, cid)]

\* ------------------------------------------------------ listener tasks
TaskIds == 1 .. (MaxEvents + 2)

\* asyncio.create_task(self._redis_subscription_handler(channel)): the task
\* subscribes to the bus and waits for messages (lines 320-324), which touches
\* nothing of the manager
NewListener(ch) == [channel |-> ch, cancelled |-> FALSE]

\* Task.done(): a finished task is dropped from tasks
TaskDone(ts, t) == t \notin DOMAIN ts

FreeTaskIds(m, ts) ==
    TaskIds \ ((DOMAIN ts) \cup {m.redis_tasks[ch] : ch \in DOMAIN m.redis_tasks})

NewTaskId(m, ts) ==
    CHOOSE t \in FreeTaskIds(m, ts) : \A o \in FreeTaskIds(m, ts) : t <= o

\* _ensure_redis_subscription without the test of line 307
NeedsListener_always(m, ts, ch) == TRUE

\* _ensure_redis_subscription, line 307
NeedsListener(m, ts, ch) ==
    ch \notin DOMAIN m.redis_tasks \/ TaskDone(ts, m.redis_tasks[ch])

\* _ensure_redis_subscription, lines 305-310
ensure_redis_subscription(m, ts, ch) ==
    IF NeedsListener(m, ts, ch)
    THEN [mgr |-> [m EXCEPT !.redis_tasks = Put(@, ch, NewTaskId(m, ts))],
          tasks |-> Put(ts, NewTaskId(m, ts), NewListener(ch))]
    ELSE [mgr |-> m, tasks |-> ts]

\* Task.cancel(): the task gets CancelledError at the await it is suspended
\* in, when the event loop runs it next.  (A task cancelled before its first
\* step ends without running its body: that leaves the state ListenerCancelled
\* leaves when it is the next step, its channel's entry being deleted already.)
cancel(ts, t) ==
    IF t \notin DOMAIN ts THEN ts ELSE [ts EXCEPT ![t].cancelled = TRUE]

\* _stop_redis_subscription, lines 312-316
stop_redis_subscription(m, ts, ch) ==
    IF ch \in DOMAIN m.redis_tasks
    THEN [mgr |-> [m EXCEPT !.redis_tasks = Del(@, ch)],
          tasks |-> cancel(ts, m.redis_tasks[ch])]
    ELSE [mgr |-> m, tasks |-> ts]

\* subscribe_to_channel, lines 142-147: index, info, listener
subscribe_registry(m, ts, cid, ch) ==
    LET m1 == [m EXCEPT
                  !.channel_subscriptions =
                      Put(@, ch, GetSet(@, ch) \cup {cid}),
                  !.connection_info[cid].subscriptions = Append(@, ch)]
    IN  ensure_redis_subscription(m1, ts, ch)

\* unsubscribe_from_channel, lines 167-175: index, info, listener
unsubscribe_registry(m, ts, cid, ch) ==
    LET m1 == [m EXCEPT
                  !.channel_subscriptions =
                      Put(@, ch, GetSet(@, ch) \ {cid}),
                  !.connection_info[cid].subscriptions = RemoveFirst(@, ch)]
    IN  IF m1.channel_subscriptions[ch] = {}
        THEN LET r == stop_redis_subscription(m1, ts, ch)
             IN  [mgr |-> [r.mgr EXCEPT !.channel_subscriptions = Del(@, ch)],
                  tasks |-> r.tasks]
        ELSE [mgr |-> m1, tasks |-> ts]

\* ------------------------------------------------------ heartbeat task
\* _ensure_initialized, lines 48-57, on the world w
ensure_initialized(w) ==
    IF w.mgr.initialized THEN w
    ELSE IF (~w.mgr.heartbeat_task) \/ w.monitor \in {"none", "done"}
    THEN [w EXCEPT !.mgr.heartbeat_task = TRUE, !.mgr.initialized = TRUE,
                   !.monitor = "sleeping"]
    ELSE [w EXCEPT !.mgr.initialized = TRUE]

\* _heartbeat_monitor, lines 290-295: the connections that timed out
TimedOut(m, t) ==
    {cid \in DOMAIN m.connection_info :
        m.connection_info[cid].last_heartbeat < t - TimeoutMinutes}

\* ----------------------------------------------------------- handlers
\* The handlers work on the world w: the manager, the listener tasks, the
\* monitor task and what the clients have been sent.  ok says whether the
\* transport send the handler makes returns (TRUE) or raises (FALSE).

\* _send_to_connection without line 259: a failed send leaves the connection
send_to_connection_keeps_failed(w, cid, frame, ok) ==
    IF cid \notin w.mgr.active_connections THEN w
    ELSE IF ok THEN [w EXCEPT !.received[cid] = Append(@, frame)]
    ELSE w

\* _send_to_connection, lines 248-260
send_to_connection(w, cid, frame, ok) ==
    IF cid \notin w.mgr.active_connections THEN w
    ELSE IF ok THEN [w EXCEPT !.received[cid] = Append(@, frame)]
    ELSE [w EXCEPT !.mgr = disconnect(@, cid)]

\* _send_error, lines 262-271
send_error(w, cid, code, ok) == send_to_connection(w, cid, ErrorFrame(code), ok)

\* connect, lines 59-104
connect(w, cid, u, tn, t, ok) ==
    LET w1 == ensure_initialized(w)
        w2 == [w1 EXCEPT !.mgr = register(@, cid, u, tn, t)]
    IN  send_to_connection(w2, cid, ConnectFrame(cid, u), ok)

\* subscribe_to_channel without lines 139-140: the index and the listener
\* are touched for an id that is not registered
subscribe_to_channel_unchecked(w, cid, ch, ok) ==
    IF cid \notin DOMAIN w.mgr.connection_info
    THEN LET m1 == [w.mgr EXCEPT
                       !.channel_subscriptions =
                           Put(@, ch, GetSet(@, ch) \cup {cid})]
             r == ensure_redis_subscription(m1, w.tasks, ch)
         IN  [w EXCEPT !.mgr = r.mgr, !.tasks = r.tasks]
    ELSE LET r == subscribe_registry(w.mgr, w.tasks, cid, ch)
         IN  send_to_connection([w EXCEPT !.mgr = r.mgr, !.tasks = r.tasks],
                                cid, AckFrame("subscribe", ch), ok)

\* subscribe_to_channel, lines 137-160
subscribe_to_channel(w, cid, ch, ok) ==
    IF cid \notin DOMAIN w.mgr.connection_info THEN w
    ELSE LET r == subscribe_registry(w.mgr, w.tasks, cid, ch)
         IN  send_to_connection([w EXCEPT !.mgr = r.mgr, !.tasks = r.tasks],
                                cid, AckFrame("subscribe", ch), ok)

\* unsubscribe_from_channel, lines 162-188
unsubscribe_from_channel(w, cid, ch, ok) ==
    IF cid \notin DOMAIN w.mgr.connection_info THEN w
    ELSE LET r == unsubscribe_registry(w.mgr, w.tasks, cid, ch)
         IN  send_to_connection([w EXCEPT !.mgr = r.mgr, !.tasks = r.tasks],
                                cid, AckFrame("unsubscribe", ch), ok)

\* _handle_heartbeat, lines 273-282
handle_heartbeat(w, cid, t, ok) ==
    IF cid \notin DOMAIN w.mgr.connection_info THEN w
    ELSE send_to_connection(
             [w EXCEPT !.mgr.connection_info[cid].last_heartbeat = t],
             cid, HeartbeatFrame, ok)

\* the channel names the modelled client frames carry
FrameChannels == {UserChannel(1), TenantBroadcast}

\* the frames a client may send: the text is JSON or not; a JSON frame has a
\* type and may carry data.channel ("" when it does not)
SubscriptionFrames ==
    [json : {TRUE}, type : {"subscribe", "unsubscribe"}, channel : FrameChannels \cup {""}]

HeartbeatFrames == [json : {TRUE}, type : {"heartbeat"}, channel : {""}]

OtherFrames ==
    [json : {TRUE}, type : {"notification", "bogus"}, channel : {""}]
    \cup [json : {FALSE}, type : {""}, channel : {""}]

ClientFrames == SubscriptionFrames \cup HeartbeatFrames \cup OtherFrames

\* WebSocketMessageType
MessageTypes ==
    {"connect", "disconnect", "subscribe", "unsubscribe", "notification",
     "heartbeat", "error", "ack"}

\* handle_message without the tests of lines 233 and 238: the channel is
\* passed on as it is
handle_message_any_channel(w, cid, f, t, ok) ==
    CASE f.type \notin MessageTypes -> send_error(w, cid, "message_error", ok)
      [] f.type = "subscribe" -> subscribe_to_channel(w, cid, f.channel, ok)
      [] f.type = "unsubscribe" ->
            unsubscribe_from_channel(w, cid, f.channel, ok)
      [] f.type = "heartbeat" -> handle_heartbeat(w, cid, t, ok)
      [] OTHER -> w

\* handle_message, lines 226-246: a frame that is no WebSocketMessage is
\* answered with the message_error frame
handle_message(w, cid, f, t, ok) ==
    CASE f.type \notin MessageTypes -> send_error(w, cid, "message_error", ok)
      [] f.type = "subscribe" /\ f.channel # "" ->
            subscribe_to_channel(w, cid, f.channel, ok)
      [] f.type = "unsubscribe" /\ f.channel # "" ->
            unsubscribe_from_channel(w, cid, f.channel, ok)
      [] f.type = "heartbeat" -> handle_heartbeat(w, cid, t, ok)
      [] OTHER -> w

\* the receive loop with JSONDecodeError caught by the clause of lines 83-89
on_receive_message_error(w, cid, f, t, ok) ==
    IF f.json THEN handle_message(w, cid, f, t, ok)
    ELSE send_error(w, cid, "message_error", ok)

\* websocket_endpoint, lines 67-82: json.loads, then handle_message or the
\* invalid_json error frame
on_receive(w, cid, f, t, ok) ==
    IF f.json THEN handle_message(w, cid, f, t, ok)
    ELSE send_error(w, cid, "invalid_json", ok)

\* websocket_endpoint without line 44: no subscription to tenant:broadcast
open_endpoint_no_broadcast(w, cid, u, t, ok) ==
    subscribe_to_channel(connect(w, cid, u, TenantOf(u), t, ok),
                         cid, UserChannel(u), ok)

\* websocket_endpoint, lines 40-48: connect and the two automatic
\* subscriptions.  The offline queue is empty: nothing in the repository
\* queues into it.
open_endpoint(w, cid, u, t, ok) ==
    LET w1 == connect(w, cid, u, TenantOf(u), t, ok)
        w2 == subscribe_to_channel(w1, cid, UserChannel(u), ok)
    IN  subscribe_to_channel(w2, cid, TenantBroadcast, ok)

\* ------------------------------------------------------------ fan-out
\* WebSocketNotification as far as the manager routes it
Notification(n, ch, tn) == [id |-> n, channel |-> ch, tenant_id |-> tn]

\* an id set that holds one connection of the user only
Targets_one_connection(m, via, name, u) ==
    CASE via = "channel" -> GetSet(m.channel_subscriptions, name)
      [] via = "user" ->
            IF GetSet(m.user_connections, u) = {} THEN {}
            ELSE {CHOOSE c \in GetSet(m.user_connections, u) : TRUE}
      [] via = "tenant" -> GetSet(m.tenant_connections, name)

\* send_to_channel / send_to_user / send_to_tenant, first line: the id set
Targets(m, via, name, u) ==
    CASE via = "channel" -> GetSet(m.channel_subscriptions, name)
      [] via = "user" -> GetSet(m.user_connections, u)
      [] via = "tenant" -> GetSet(m.tenant_connections, name)

\* the orders in which a set of ids can be iterated
Orders(S) ==
    {o \in [1 .. Cardinality(S) -> S] : \A i, j \in DOMAIN o : i # j => o[i] # o[j]}

\* a fan-out loop that the first failed send ends
RECURSIVE fan_out_until_failure(_, _, _, _)
fan_out_until_failure(w, ids, frame, tr) ==
    IF ids = <<>> THEN w
    ELSE IF tr[Head(ids)] # "open"
    THEN send_to_connection(w, Head(ids), frame, FALSE)
    ELSE fan_out_until_failure(send_to_connection(w, Head(ids), frame, TRUE),
                               Tail(ids), frame, tr)

\* the loop of send_to_channel (lines 223-224), send_to_user (199-200) and
\* send_to_tenant (211-212) over the copied id set, in the order ids
RECURSIVE fan_out(_, _, _, _)
fan_out(w, ids, frame, tr) ==
    IF ids = <<>> THEN w
    ELSE fan_out(send_to_connection(w, Head(ids), frame, tr[Head(ids)] = "open"),
                 Tail(ids), frame, tr)

\* an eviction loop that ends after the first connection
evict_first_only(m, ids) ==
    IF ids = <<>> THEN m ELSE disconnect(m, Head(ids))

\* _heartbeat_monitor, lines 297-300: the timed-out connections are
\* disconnected one after the other
RECURSIVE evict(_, _)
evict(m, ids) ==
    IF ids = <<>> THEN m ELSE evict(disconnect(m, Head(ids)), Tail(ids))

\* a Redis delete whose exception leaves _remove_connection_from_redis
remove_connection_from_redis_uncaught(failed) == failed

\* _remove_connection_from_redis, lines 356-364: does it raise?  failed says
\* whether the Redis delete raised; the except clause logs and swallows it
remove_connection_from_redis(failed) == FALSE

\* _heartbeat_monitor, lines 298-300 and 302: the ids the loop gets to; an
\* exception of a disconnect, whose last step is the Redis delete, leaves the
\* loop for the except clause of the iteration
RECURSIVE UntilRaise(_, _)
UntilRaise(ids, down) ==
    IF ids = <<>> THEN <<>>
    ELSE IF remove_connection_from_redis(Head(ids) \in down) THEN <<Head(ids)>>
    ELSE <<Head(ids)>> \o UntilRaise(Tail(ids), down)

\* connection_info is iterated in insertion order: the order of the suffixes
InOrder(S) ==
    CHOOSE o \in Orders(S) : \A i, j \in DOMAIN o : i < j => o[i][2] < o[j][2]

\* _redis_subscription_handler, lines 339-341: the finally block
listener_cleanup(m, ch) ==
    IF ch \in DOMAIN m.redis_tasks THEN [m EXCEPT !.redis_tasks = Del(@, ch)] ELSE m

\* a decode failure that ends the listener task
after_decode_failure_ends_listener(w, t) ==
    [w EXCEPT !.mgr = listener_cleanup(@, w.tasks[t].channel),
              !.tasks = Del(@, t)]

\* _redis_subscription_handler, lines 334-335: the exception of json.loads or
\* of WebSocketNotification(**data) is logged and the loop goes on
after_decode_failure(w, t) == w

\* a bus failure that ends every listener task
listener_failure_ends_all(w, t) ==
    [w EXCEPT !.mgr.redis_tasks = EmptyDict, !.tasks = EmptyDict]

\* _redis_subscription_handler, lines 337-341: subscribe or listen raises;
\* the exception is logged, the finally block runs and the task is done
listener_failure(w, t) ==
    [w EXCEPT !.mgr = listener_cleanup(@, w.tasks[t].channel),
              !.tasks = Del(@, t)]

\* ------------------------------------------------------------ actions
\* no fan-out call has been made yet
NoFan ==
    [via |-> "none", name |-> "", user |-> 0, n |-> Notification(0, "", ""),
     snapshot |-> {}]

\* no client frame has been handled yet
NoInput ==
    [cid |-> <<0, 0>>, frame |-> [json |-> FALSE, type |-> "", channel |-> ""],
     ok |-> TRUE]

\* no listener task has logged anything yet
NoLog == [skipped |-> {}, failed |-> {}]

\* tenant_id=None
NoTenant == ""

\* RedisClient._get_tenant_key, redis.py lines 25-27: f"tenant:{tenant_id}:{key}"
get_tenant_key(tn, key) == <<"tenant", tn, key>>

\* the topic RedisClient.publish and RedisClient.subscribe use for a channel,
\* redis.py lines 59-60 and 65-66
redis_topic(ch, tn) == IF tn # NoTenant THEN get_tenant_key(tn, ch) ELSE <<ch>>

\* the topic a listener task is subscribed to: redis_client.subscribe(channel)
\* of _redis_subscription_handler, line 322, passes no tenant_id
listener_topic(ch) == redis_topic(ch, NoTenant)

\* WebSocketNotification.dict(): the fields as Python objects, among them
\* the timestamp, a datetime, and the tenant_id, a UUID
notification_dict(n) == [fields |-> n, python_objects |-> TRUE]

\* the text of a notification whose values are JSON values already
notification_json(n) == [fields |-> n, python_objects |-> FALSE]

\* json.dumps of redis.py line 61: a datetime or a UUID is not serializable
json_dumps(message) ==
    IF message.python_objects THEN [raised |-> TRUE, text |-> message]
    ELSE [raised |-> FALSE, text |-> message]

\* RedisClient.publish, redis.py lines 57-61: the topic, and the text or the
\* TypeError of json.dumps
redis_publish(ch, message, tn) ==
    [topic |-> redis_topic(ch, tn), raised |-> json_dumps(message).raised,
     n |-> message.fields]

\* the listener tasks a message published to a topic reaches
Reached(ts, topic) ==
    {t \in DOMAIN ts : ~ts[t].cancelled /\ listener_topic(ts[t].channel) = topic}

\* the bus hands a published text to every listener subscribed to its topic
bus_deliver(box, ts, p) ==
    IF p.raised THEN box
    ELSE [t \in (DOMAIN box) \cup Reached(ts, p.topic) |->
             LET old == IF t \in DOMAIN box THEN box[t] ELSE <<>>
             IN  IF t \in Reached(ts, p.topic) THEN Append(old, p.n) ELSE old]

\* nothing has been published yet
NoPublish ==
    [n |-> Notification(0, "", ""), topic |-> <<>>, raised |-> FALSE,
     service |-> FALSE]

\* the history and bus variables most actions leave alone
aux == <<storeFailed, lastInput, published, inbox, busLog, fans, scan>>

World == [mgr |-> mgr, tasks |-> tasks, monitor |-> monitor, received |-> received]

Become(w) ==
    /\ mgr' = w.mgr
    /\ tasks' = w.tasks
    /\ monitor' = w.monitor
    /\ received' = w.received

Init ==
    /\ mgr = NewManager
    /\ tasks = EmptyDict
    /\ monitor = "none"
    /\ endpoint = EmptyDict
    /\ transport = EmptyDict
    /\ received = EmptyDict
    /\ lastFan = NoFan
    /\ lastScan = -1
    /\ storeFailed = {}
    /\ lastInput = NoInput
    /\ published = NoPublish
    /\ inbox = EmptyDict
    /\ busLog = NoLog
    /\ fans = EmptyDict
    /\ scan = <<>>
    /\ now = 0
    /\ numEvents = 0

Event ==
    /\ numEvents < MaxEvents
    /\ numEvents' = numEvents + 1

\* websocket_endpoint, lines 36-48: a verified user connects; the client is
\* there (ok) or already gone when the first frame is sent to it
Connect(u, ok) ==
    /\ Event
    /\ LET cid == <<u, Cardinality(DOMAIN endpoint) + 1>>
       IN  /\ Become(open_endpoint([World EXCEPT !.received = Put(@, cid, <<>>)],
                                   cid, u, now, ok))
           /\ endpoint' = Put(endpoint, cid, "receive")
           /\ transport' = Put(transport, cid, IF ok THEN "open" ELSE "dead")
    /\ UNCHANGED <<lastFan, lastScan, aux, now>>

\* websocket_endpoint, lines 64-89: a frame of the client arrives and is
\* handled; the client stays (ok) or is gone when the reply is sent
Receive(cid, f, ok) ==
    /\ Event
    /\ cid \in DOMAIN endpoint
    /\ endpoint[cid] = "receive"
    /\ transport[cid] = "open"
    /\ Become(on_receive(World, cid, f, now, ok))
    /\ transport' = IF ok THEN transport ELSE [transport EXCEPT ![cid] = "dead"]
    /\ UNCHANGED <<endpoint, lastFan, lastScan, storeFailed, published, inbox, busLog, fans, scan,
                   now>>

ClientFrame(cid, f, ok) ==
    /\ Receive(cid, f, ok)
    /\ UNCHANGED lastInput

\* the same step, with the frame kept in lastInput
FrameHandled(cid, f, ok) ==
    /\ Receive(cid, f, ok)
    /\ lastInput' = [cid |-> cid, frame |-> f, ok |-> ok]

\* the client goes away: sends raise and receive_text raises WebSocketDisconnect
ClientGone(cid) ==
    /\ cid \in DOMAIN endpoint
    /\ transport[cid] = "open"
    /\ transport' = [transport EXCEPT ![cid] = "dead"]
    /\ UNCHANGED <<mgr, tasks, monitor, endpoint, received, lastFan, lastScan, aux,
                   now, numEvents>>

\* websocket_endpoint, lines 73-75 and 95-98: the loop ends, finally disconnects
EndpointClose(cid) ==
    /\ cid \in DOMAIN endpoint
    /\ endpoint[cid] = "receive"
    /\ transport[cid] = "dead"
    /\ mgr' = disconnect(mgr, cid)
    /\ endpoint' = [endpoint EXCEPT ![cid] = "closed"]
    /\ UNCHANGED <<tasks, monitor, transport, received, lastFan, lastScan, aux,
                   now, numEvents>>

\* a cancelled listener is resumed with CancelledError, which no except
\* clause of the handler catches: the finally block runs and the task ends
ListenerCancelled(t) ==
    /\ t \in DOMAIN tasks
    /\ tasks[t].cancelled
    /\ mgr' = listener_cleanup(mgr, tasks[t].channel)
    /\ tasks' = Del(tasks, t)
    /\ inbox' = Del(inbox, t)
    /\ fans' = Del(fans, t)
    /\ UNCHANGED <<monitor, endpoint, transport, received, lastFan, lastScan,
                   storeFailed, lastInput, published, busLog, scan, now,
                   numEvents>>

\* a fan-out call: the id set is copied and iterated in some order
FanOut(via, name, u, n) ==
    /\ lastFan' = [via |-> via, name |-> name, user |-> u, n |-> n,
                   snapshot |-> Targets(mgr, via, name, u)]
    /\ \E ids \in Orders(Targets(mgr, via, name, u)) :
           Become(fan_out(World, ids, NotificationFrame(n), transport))

\* _redis_subscription_handler, lines 324-335: a bus message arrives; one that
\* does not decode is logged and skipped, one that does goes to send_to_channel
BusHandled(t, decodes, tn) ==
    /\ Event
    /\ t \in DOMAIN tasks
    /\ ~tasks[t].cancelled
    /\ IF decodes
       THEN FanOut("channel", tasks[t].channel, 0,
                   Notification(numEvents + 1, tasks[t].channel, tn))
       ELSE Become(after_decode_failure(World, t)) /\ UNCHANGED lastFan
    /\ UNCHANGED <<endpoint, transport, lastScan, storeFailed, lastInput,
                   published, inbox, fans, scan, now>>

BusMessage(t, decodes, tn) ==
    /\ BusHandled(t, decodes, tn)
    /\ UNCHANGED busLog

\* the same step, with the logged decode failure kept in busLog
BusMessageLogged(t, decodes, tn) ==
    /\ BusHandled(t, decodes, tn)
    /\ busLog' = IF decodes THEN busLog
                 ELSE [busLog EXCEPT !.skipped = @ \cup {t}]

\* the bus fails under a listener task: redis_client.subscribe or
\* pubsub.listen() raises
ListenerFailed(t) ==
    /\ Event
    /\ t \in DOMAIN tasks
    /\ ~tasks[t].cancelled
    /\ Become(listener_failure(World, t))
    /\ inbox' = Del(inbox, t)
    /\ busLog' = [busLog EXCEPT !.failed = @ \cup {<<t, tasks[t].channel>>}]
    /\ fans' = Del(fans, t)
    /\ UNCHANGED <<endpoint, transport, lastFan, lastScan, storeFailed,
                   lastInput, published, scan, now>>

\* send_to_user, lines 190-200: a call of the public method
SendToUser(u) ==
    /\ Event
    /\ FanOut("user", "", u, Notification(numEvents + 1, "", TenantOf(u)))
    /\ UNCHANGED <<endpoint, transport, lastScan, aux, now>>

\* send_to_tenant, lines 202-212, called by the broadcast endpoint
SendToTenant(tn) ==
    /\ Event
    /\ FanOut("tenant", tn, 0, Notification(numEvents + 1, TenantBroadcast, tn))
    /\ UNCHANGED <<endpoint, transport, lastScan, aux, now>>

\* NotificationService.send_user_notification, lines 124-149: the
\* notification is published with tenant_id; an exception is logged
SendUserNotification(u, tn) ==
    /\ Event
    /\ LET n == Notification(numEvents + 1, UserChannel(u), tn)
           p == redis_publish(n.channel, notification_dict(n), tn)
       IN  /\ published' = [n |-> n, topic |-> p.topic, raised |-> p.raised,
                            service |-> TRUE]
           /\ inbox' = bus_deliver(inbox, tasks, p)
    /\ UNCHANGED <<mgr, tasks, monitor, endpoint, transport, received, lastFan,
                   lastScan, storeFailed, lastInput, busLog, fans, scan, now>>

\* NotificationService.broadcast_to_tenant, lines 151-175: the same on
\* tenant:broadcast
BroadcastToTenant(tn) ==
    /\ Event
    /\ LET n == Notification(numEvents + 1, TenantBroadcast, tn)
           p == redis_publish(n.channel, notification_dict(n), tn)
       IN  /\ published' = [n |-> n, topic |-> p.topic, raised |-> p.raised,
                            service |-> TRUE]
           /\ inbox' = bus_deliver(inbox, tasks, p)
    /\ UNCHANGED <<mgr, tasks, monitor, endpoint, transport, received, lastFan,
                   lastScan, storeFailed, lastInput, busLog, fans, scan, now>>

\* some client of the bus publishes the text of a notification to the topic
\* that is the channel name itself
BusPublish(ch, tn) ==
    /\ Event
    /\ LET n == Notification(numEvents + 1, ch, tn)
           p == redis_publish(ch, notification_json(n), NoTenant)
       IN  /\ published' = [n |-> n, topic |-> p.topic, raised |-> p.raised,
                            service |-> FALSE]
           /\ inbox' = bus_deliver(inbox, tasks, p)
    /\ UNCHANGED <<mgr, tasks, monitor, endpoint, transport, received, lastFan,
                   lastScan, storeFailed, lastInput, busLog, fans, scan, now>>

\* _redis_subscription_handler, lines 324-332: the listener takes the next
\* message of its topic and sends it to the channel's connections
BusDeliver(t) ==
    /\ t \in DOMAIN tasks
    /\ ~tasks[t].cancelled
    /\ t \in DOMAIN inbox
    /\ inbox[t] # <<>>
    /\ inbox' = [inbox EXCEPT ![t] = Tail(@)]
    /\ FanOut("channel", tasks[t].channel, 0, Head(inbox[t]))
    /\ UNCHANGED <<endpoint, transport, lastScan, storeFailed, lastInput,
                   published, busLog, fans, scan, now, numEvents>>

\* _heartbeat_monitor, lines 284-303: the sleep is over; the timed-out
\* connections are collected and disconnected; sfx are the id suffixes of
\* those whose Redis delete raises
MonitorScan(sfx) ==
    /\ monitor = "sleeping"
    /\ sfx \subseteq {cid[2] : cid \in TimedOut(mgr, now)}
    /\ LET down == {cid \in TimedOut(mgr, now) : cid[2] \in sfx}
       IN  /\ mgr' = evict(mgr, UntilRaise(InOrder(TimedOut(mgr, now)), down))
           /\ storeFailed' = down
    /\ lastScan' = now
    /\ UNCHANGED <<tasks, monitor, endpoint, transport, received, lastFan,
                   lastInput, published, inbox, busLog, fans, scan, now, numEvents>>

\* d minutes pass
Tick(d) ==
    /\ Event
    /\ now' = now + d
    /\ UNCHANGED <<mgr, tasks, monitor, endpoint, transport, received, lastFan,
                   lastScan, aux>>

\* connections, their frames and the listener tasks
Next ==
    \/ \E u \in Users, ok \in BOOLEAN : Connect(u, ok)
    \/ \E cid \in ConnIds, f \in ClientFrames, ok \in BOOLEAN : ClientFrame(cid, f, ok)
    \/ \E cid \in ConnIds : ClientGone(cid)
    \/ \E cid \in ConnIds : EndpointClose(cid)
    \/ \E t \in TaskIds : ListenerCancelled(t)

Spec == Init /\ [][Next]_vars

\* connections and the fan-outs to them
NextFan ==
    \/ \E u \in Users : Connect(u, TRUE)
    \/ \E cid \in ConnIds : ClientGone(cid)
    \/ \E cid \in ConnIds : EndpointClose(cid)
    \/ \E t \in TaskIds, d \in BOOLEAN, tn \in Tenants : BusMessage(t, d, tn)
    \/ \E u \in Users : SendToUser(u)
    \/ \E tn \in Tenants : SendToTenant(tn)

SpecFan == Init /\ [][NextFan]_vars

\* connections, their heartbeats, the clock and the heartbeat monitor
NextMon ==
    \/ \E u \in Users, ok \in BOOLEAN : Connect(u, ok)
    \/ \E cid \in ConnIds, f \in HeartbeatFrames, ok \in BOOLEAN :
           ClientFrame(cid, f, ok)
    \/ \E cid \in ConnIds : ClientGone(cid)
    \/ \E cid \in ConnIds : EndpointClose(cid)
    \/ \E sfx \in SUBSET (1 .. MaxEvents) : MonitorScan(sfx)
    \/ \E d \in 1 .. (TimeoutMinutes + 1) : Tick(d)

SpecMon == Init /\ [][NextMon]_vars

\* websocket_endpoint, line 40: connect() alone; its awaits let other tasks
\* run before the endpoint goes on to its subscribe_to_channel calls
ConnectCall(u, ok) ==
    /\ Event
    /\ LET cid == <<u, Cardinality(DOMAIN endpoint) + 1>>
       IN  /\ Become(connect([World EXCEPT !.received = Put(@, cid, <<>>)],
                             cid, u, TenantOf(u), now, ok))
           /\ endpoint' = Put(endpoint, cid, "subscribe_user")
           /\ transport' = Put(transport, cid, IF ok THEN "open" ELSE "dead")
    /\ UNCHANGED <<lastFan, lastScan, aux, now>>

\* connect() of another endpoint draws, at line 70, the id of a registered
\* connection; from here on endpoint, transport and received of the id are
\* those of the new socket
ConnectDuplicate(cid, ok) ==
    /\ Event
    /\ cid \in DOMAIN mgr.connection_info
    /\ endpoint[cid] = "receive"
    /\ Become(connect([World EXCEPT !.received = Put(@, cid, <<>>)],
                      cid, UserOfId(cid), TenantOf(UserOfId(cid)), now, ok))
    /\ endpoint' = Put(endpoint, cid, "subscribe_user")
    /\ transport' = Put(transport, cid, IF ok THEN "open" ELSE "dead")
    /\ UNCHANGED <<lastFan, lastScan, aux, now>>

\* websocket_endpoint, lines 43-44: the next of the two automatic
\* subscriptions
AutoSubscribe(cid, ok) ==
    /\ cid \in DOMAIN endpoint
    /\ endpoint[cid] \in {"subscribe_user", "subscribe_broadcast"}
    /\ ok => transport[cid] = "open"
    /\ Become(subscribe_to_channel(
                  World, cid,
                  IF endpoint[cid] = "subscribe_user"
                  THEN UserChannel(UserOfId(cid)) ELSE TenantBroadcast,
                  ok))
    /\ endpoint' = [endpoint EXCEPT ![cid] =
                        IF @ = "subscribe_user" THEN "subscribe_broadcast"
                        ELSE "receive"]
    /\ transport' = IF ok THEN transport ELSE [transport EXCEPT ![cid] = "dead"]
    /\ UNCHANGED <<lastFan, lastScan, aux, now, numEvents>>

\* the _heartbeat_monitor task is cancelled: CancelledError is no Exception,
\* the except clause of line 302 does not catch it and the task is done
MonitorCancelled ==
    /\ monitor = "sleeping"
    /\ monitor' = "done"
    /\ UNCHANGED <<mgr, tasks, endpoint, transport, received, lastFan, lastScan,
                   aux, now, numEvents>>

\* the endpoints step by step, a repeated connection id and the end of the
\* monitor task
NextConn ==
    \/ \E u \in Users : ConnectCall(u, TRUE)
    \/ \E cid \in ConnIds : ConnectDuplicate(cid, TRUE)
    \/ \E cid \in ConnIds, ok \in BOOLEAN : AutoSubscribe(cid, ok)
    \/ \E cid \in ConnIds : EndpointClose(cid)
    \/ MonitorCancelled

SpecConn == Init /\ [][NextConn]_vars

\* connections, the producers that publish to the bus and the listeners
NextBus ==
    \/ \E u \in Users : Connect(u, TRUE)
    \/ \E cid \in ConnIds : ClientGone(cid)
    \/ \E cid \in ConnIds : EndpointClose(cid)
    \/ \E u \in Users : SendUserNotification(u, TenantOf(u))
    \/ \E tn \in Tenants : BroadcastToTenant(tn)
    \/ \E ch \in Channels, tn \in Tenants : BusPublish(ch, tn)
    \/ \E t \in TaskIds : BusDeliver(t)

SpecBus == Init /\ [][NextBus]_vars

\* connections, their subscriptions, the messages and failures of the bus
NextListen ==
    \/ \E u \in Users : Connect(u, TRUE)
    \/ \E cid \in ConnIds, f \in SubscriptionFrames : FrameHandled(cid, f, TRUE)
    \/ \E t \in TaskIds, d \in BOOLEAN, tn \in Tenants : BusMessageLogged(t, d, tn)
    \/ \E t \in TaskIds : ListenerFailed(t)
    \/ \E t \in TaskIds : ListenerCancelled(t)

SpecListen == Init /\ [][NextListen]_vars

\* connections and their frames, each kept in lastInput
NextFrames ==
    \/ \E u \in Users, ok \in BOOLEAN : Connect(u, ok)
    \/ \E cid \in ConnIds, f \in ClientFrames, ok \in BOOLEAN :
           FrameHandled(cid, f, ok)

SpecFrames == Init /\ [][NextFrames]_vars

\* ------------------------------------------------- between the awaits
\* connect, lines 65-87: the handshake is accepted and the connection is
\* entered in the registry and in the user and tenant indices; the task is
\* then suspended in _store_connection_in_redis (line 90)
connect_register(w, cid, u, tn, t) ==
    [ensure_initialized(w) EXCEPT !.mgr = register(@, cid, u, tn, t)]

\* connect, lines 93-101: the CONNECT confirmation is sent
connect_acknowledge(w, cid, ok) ==
    send_to_connection(w, cid, ConnectFrame(cid, UserOfId(cid)), ok)

\* websocket_endpoint, line 40: connect() up to its await of the store
ConnectRegister(u) ==
    /\ Event
    /\ LET cid == <<u, Cardinality(DOMAIN endpoint) + 1>>
       IN  /\ Become(connect_register([World EXCEPT !.received = Put(@, cid, <<>>)],
                                      cid, u, TenantOf(u), now))
           /\ endpoint' = Put(endpoint, cid, "store")
           /\ transport' = Put(transport, cid, "open")
    /\ UNCHANGED <<lastFan, lastScan, aux, now>>

\* connect() goes on after the store: the confirmation is sent (ok) or the
\* client is gone
ConnectAcknowledge(cid, ok) ==
    /\ cid \in DOMAIN endpoint
    /\ endpoint[cid] = "store"
    /\ ok => transport[cid] = "open"
    /\ Become(connect_acknowledge(World, cid, ok))
    /\ endpoint' = [endpoint EXCEPT ![cid] = "subscribe_user"]
    /\ transport' = IF ok THEN transport ELSE [transport EXCEPT ![cid] = "dead"]
    /\ UNCHANGED <<lastFan, lastScan, aux, now, numEvents>>

\* connect() between its awaits, the automatic subscriptions and the public
\* fan-out calls
NextAck ==
    \/ \E u \in Users : ConnectRegister(u)
    \/ \E cid \in ConnIds, ok \in BOOLEAN : ConnectAcknowledge(cid, ok)
    \/ \E cid \in ConnIds, ok \in BOOLEAN : AutoSubscribe(cid, ok)
    \/ \E u \in Users : SendToUser(u)
    \/ \E tn \in Tenants : SendToTenant(tn)

SpecAck == Init /\ [][NextAck]_vars

\* _heartbeat_monitor, lines 288-300: the sleep is over, the connections
\* whose last_heartbeat is older than the threshold are collected and the
\* first of them is disconnected; disconnect() runs without an await up to
\* its Redis delete (line 133), where the monitor is suspended with the
\* rest of the list
ScanCollect ==
    /\ monitor = "sleeping"
    /\ scan = <<>>
    /\ TimedOut(mgr, now) # {}
    /\ mgr' = disconnect(mgr, Head(InOrder(TimedOut(mgr, now))))
    /\ scan' = Tail(InOrder(TimedOut(mgr, now)))
    /\ lastScan' = now
    /\ UNCHANGED <<tasks, monitor, endpoint, transport, received, lastFan,
                   storeFailed, lastInput, published, inbox, busLog, fans, now,
                   numEvents>>

\* _heartbeat_monitor, lines 298-300: the Redis delete has returned and the
\* next collected id is disconnected
ScanEvict ==
    /\ scan # <<>>
    /\ mgr' = disconnect(mgr, Head(scan))
    /\ scan' = Tail(scan)
    /\ UNCHANGED <<tasks, monitor, endpoint, transport, received, lastFan,
                   lastScan, storeFailed, lastInput, published, inbox, busLog,
                   fans, now, numEvents>>

\* connections, their heartbeats, the clock and the monitor between its awaits
NextScan ==
    \/ \E u \in Users : Connect(u, TRUE)
    \/ \E cid \in ConnIds, f \in HeartbeatFrames : ClientFrame(cid, f, TRUE)
    \/ \E d \in 1 .. (TimeoutMinutes + 1) : Tick(d)
    \/ ScanCollect
    \/ ScanEvict

SpecScan == Init /\ [][NextScan]_vars

\* send_to_channel, lines 214-224, one await at a time.  A listener task
\* that is inside send_to_channel has an entry in fans: the notification,
\* wait, the connection whose _send_to_connection it is suspended in, stuck,
\* whether that send found a client that does not read, and rest, the ids
\* of its copy of the index it has not come to yet.

\* _send_to_connection, lines 248-260, on a transport that takes the frame
\* ("open"), raises ("dead") or neither returns nor raises ("hung")
start_send(w, cid, frame, tr) ==
    IF tr[cid] = "hung" THEN w
    ELSE send_to_connection(w, cid, frame, tr[cid] = "open")

\* the client stops reading: a send to it does not complete
ClientHangs(cid) ==
    /\ cid \in DOMAIN transport
    /\ transport[cid] = "open"
    /\ transport' = [transport EXCEPT ![cid] = "hung"]
    /\ UNCHANGED <<mgr, tasks, monitor, endpoint, received, lastFan, lastScan,
                   aux, now, numEvents>>

\* websocket_endpoint, lines 36-48: user u opens its one connection
Join(u) ==
    /\ \A cid \in DOMAIN endpoint : UserOfId(cid) # u
    /\ LET cid == <<u, Cardinality(DOMAIN endpoint) + 1>>
       IN  /\ Become(open_endpoint([World EXCEPT !.received = Put(@, cid, <<>>)],
                                   cid, u, now, TRUE))
           /\ endpoint' = Put(endpoint, cid, "receive")
           /\ transport' = Put(transport, cid, "open")
    /\ UNCHANGED <<lastFan, lastScan, aux, now, numEvents>>

\* some client of the bus publishes the text of the next notification to the
\* topic that is the channel name itself
BusPublishNext(ch, tn) ==
    /\ published.n.id < MaxMessages
    /\ LET n == Notification(published.n.id + 1, ch, tn)
           p == redis_publish(ch, notification_json(n), NoTenant)
       IN  /\ published' = [n |-> n, topic |-> p.topic, raised |-> p.raised,
                            service |-> FALSE]
           /\ inbox' = bus_deliver(inbox, tasks, p)
    /\ UNCHANGED <<mgr, tasks, monitor, endpoint, transport, received, lastFan,
                   lastScan, storeFailed, lastInput, busLog, fans, scan, now,
                   numEvents>>

\* _redis_subscription_handler, lines 324-332, and send_to_channel, lines
\* 216-222: the listener takes the next message of its topic, copies the
\* channel's index and starts the send to the first id of the copy
BusTake(t) ==
    /\ t \in DOMAIN tasks
    /\ ~tasks[t].cancelled
    /\ t \notin DOMAIN fans
    /\ t \in DOMAIN inbox
    /\ inbox[t] # <<>>
    /\ inbox' = [inbox EXCEPT ![t] = Tail(@)]
    /\ lastFan' = [via |-> "channel", name |-> tasks[t].channel, user |-> 0,
                   n |-> Head(inbox[t]),
                   snapshot |-> Targets(mgr, "channel", tasks[t].channel, 0)]
    /\ \E ids \in Orders(Targets(mgr, "channel", tasks[t].channel, 0)) :
           IF ids = <<>>
           THEN UNCHANGED <<mgr, tasks, monitor, received, fans>>
           ELSE /\ Become(start_send(World, Head(ids),
                                     NotificationFrame(Head(inbox[t])), transport))
                /\ fans' = Put(fans, t, [n |-> Head(inbox[t]), wait |-> Head(ids),
                                         stuck |-> transport[Head(ids)] = "hung",
                                         rest |-> Tail(ids)])
    /\ UNCHANGED <<endpoint, transport, lastScan, storeFailed, lastInput,
                   published, busLog, scan, now, numEvents>>

\* send_to_channel, lines 221-222: the send the listener waited in has
\* returned or raised; the send to the next id of the copy starts, or
\* send_to_channel returns
FanSend(t) ==
    /\ t \in DOMAIN fans
    /\ ~tasks[t].cancelled
    /\ ~fans[t].stuck
    /\ IF fans[t].rest = <<>>
       THEN /\ fans' = Del(fans, t)
            /\ UNCHANGED <<mgr, tasks, monitor, received>>
       ELSE /\ Become(start_send(World, Head(fans[t].rest),
                                 NotificationFrame(fans[t].n), transport))
            /\ fans' = [fans EXCEPT
                            ![t].wait = Head(fans[t].rest),
                            ![t].stuck = transport[Head(fans[t].rest)] = "hung",
                            ![t].rest = Tail(fans[t].rest)]
    /\ UNCHANGED <<endpoint, transport, lastFan, lastScan, storeFailed,
                   lastInput, published, inbox, busLog, scan, now, numEvents>>

\* the frames that subscribe to and unsubscribe from tenant:broadcast
BroadcastFrames ==
    [json : {TRUE}, type : {"subscribe", "unsubscribe"}, channel : {TenantBroadcast}]

\* the users' connections, their subscription frames, the bus and the
\* listener tasks between the awaits of send_to_channel
NextSteps ==
    \/ \E u \in Users : Join(u)
    \/ \E cid \in ConnIds, f \in BroadcastFrames : ClientFrame(cid, f, TRUE)
    \/ \E tn \in Tenants : BusPublishNext(TenantBroadcast, tn)
    \/ \E t \in TaskIds : BusTake(t)
    \/ \E t \in TaskIds : FanSend(t)
    \/ \E t \in TaskIds : ListenerCancelled(t)

SpecSteps == Init /\ [][NextSteps]_vars

\* the users' connections, clients that stop reading, the bus and the
\* listener tasks between the awaits of send_to_channel
NextHung ==
    \/ \E u \in Users : Join(u)
    \/ \E cid \in ConnIds : ClientHangs(cid)
    \/ \E ch \in {UserChannel(1), TenantBroadcast}, tn \in Tenants :
           BusPublishNext(ch, tn)
    \/ \E t \in TaskIds : BusTake(t)
    \/ \E t \in TaskIds : FanSend(t)

\* the event loop runs every task that is ready: a listener with a message
\* waiting takes it, and a send that the transport completes returns
SpecHung ==
    /\ Init
    /\ [][NextHung]_vars
    /\ \A t \in TaskIds : WF_vars(BusTake(t)) /\ WF_vars(FanSend(t))

\* ------------------------------------------------------------- claims
Registered == DOMAIN mgr.connection_info

ChannelIndexMatchesSubscriptions ==
    \A cid \in Registered, ch \in Channels :
        cid \in GetSet(mgr.channel_subscriptions, ch)
            <=> ch \in Range(mgr.connection_info[cid].subscriptions)

\* C3: no entry of the channel, user or tenant index maps to an empty set.
NoEmptyIndexEntry ==
    /\ \A ch \in DOMAIN mgr.channel_subscriptions :
           mgr.channel_subscriptions[ch] # {}
    /\ \A u \in DOMAIN mgr.user_connections : mgr.user_connections[u] # {}
    /\ \A t \in DOMAIN mgr.tenant_connections : mgr.tenant_connections[t] # {}

\* C4: in every reachable state and for every connection id, registered or
\* not, disconnect removes the id, so that a second disconnect takes the early
\* return of line 109, and the second disconnect changes nothing.
DisconnectIdempotent ==
    \A cid \in ConnIds :
        LET once == disconnect(mgr, cid)
        IN  /\ cid \notin once.active_connections
            /\ cid \notin DOMAIN once.connection_info
            /\ disconnect(once, cid) = once

\* C4: a connection has been torn down while another one, with subscriptions,
\* is registered
DisconnectIdempotentReached ==
    /\ \E cid \in DOMAIN endpoint :
           endpoint[cid] = "closed" /\ cid \notin mgr.active_connections
    /\ \E cid \in Registered : mgr.connection_info[cid].subscriptions # <<>>

\* the listener tasks of channel ch that have not finished
ListenersOf(ts, ch) == {t \in DOMAIN ts : ts[t].channel = ch}

\* the listener tasks of channel ch that run: not finished, not cancelled
RunningListenersOf(ts, ch) == {t \in ListenersOf(ts, ch) : ~ts[t].cancelled}

\* C5: a fan-out delivers the notification frame to every target whose send
\* succeeds and keeps it registered, tears down exactly the targets whose
\* send raises, sends nothing to the others, and returns to its caller: the
\* listener tasks are as they were.
FanOutIsolated ==
    [][lastFan' # lastFan =>
          LET targets == lastFan'.snapshot
              frame == NotificationFrame(lastFan'.n)
              failing == {c \in targets : transport[c] # "open"}
          IN  /\ targets \subseteq mgr.active_connections
              /\ \A c \in targets \ failing :
                     received'[c] = Append(received[c], frame)
              /\ \A c \in (DOMAIN received) \ (targets \ failing) :
                     received'[c] = received[c]
              /\ mgr'.active_connections = mgr.active_connections \ failing
              /\ DOMAIN mgr'.connection_info = Registered \ failing
              /\ tasks' = tasks
    ]_vars

\* C5: a channel fan-out over three connections has delivered to two of them
\* and torn down the third, whose send raised
FanOutIsolatedReached ==
    /\ lastFan.via = "channel"
    /\ \E c1, c2, c3 \in lastFan.snapshot :
           /\ c1 # c2
           /\ \A c \in {c1, c2} :
                  /\ c \in mgr.active_connections
                  /\ received[c][Len(received[c])] = NotificationFrame(lastFan.n)
           /\ transport[c3] = "dead"
           /\ c3 \notin mgr.active_connections
           /\ NotificationFrame(lastFan.n) \notin Range(received[c3])

\* the one tracked, running task is the only listener task of channel ch
OneTrackedListener(m, ts, ch) ==
    /\ ch \in DOMAIN m.redis_tasks
    /\ ListenersOf(ts, ch) = {m.redis_tasks[ch]}
    /\ ~ts[m.redis_tasks[ch]].cancelled

\* C6: a step that subscribes the first connection to a channel without a
\* listener task starts exactly one task for it and tracks it; while that
\* task is the channel's listener and a connection stays subscribed, no task
\* is started for the channel and the task is neither cancelled nor
\* untracked; the unsubscribe that empties the channel's index cancels the
\* task and untracks it; no running task is cancelled while the index of its
\* channel is not empty.
BridgeLifecycle ==
    [][\A ch \in Channels :
          LET before == GetSet(mgr.channel_subscriptions, ch)
              after == GetSet(mgr'.channel_subscriptions, ch)
              started == ListenersOf(tasks', ch) \ ListenersOf(tasks, ch)
          IN  /\ (ListenersOf(tasks, ch) = {} /\ after \ before # {})
                     => /\ Cardinality(started) = 1
                        /\ OneTrackedListener(mgr', tasks', ch)
                        /\ mgr'.redis_tasks[ch] \in started
              /\ (OneTrackedListener(mgr, tasks, ch) /\ after # {})
                     => /\ started = {}
                        /\ OneTrackedListener(mgr', tasks', ch)
                        /\ mgr'.redis_tasks[ch] = mgr.redis_tasks[ch]
              /\ (OneTrackedListener(mgr, tasks, ch) /\ before # {}
                      /\ ch \notin DOMAIN mgr'.channel_subscriptions)
                     => /\ ch \notin DOMAIN mgr'.redis_tasks
                        /\ tasks'[mgr.redis_tasks[ch]].cancelled
                        /\ RunningListenersOf(tasks', ch) = {}
              /\ \A t \in RunningListenersOf(tasks, ch) :
                     (t \in DOMAIN tasks' /\ tasks'[t].cancelled) => after = {}
    ]_vars

\* C6: two registered connections have both unsubscribed from
\* tenant:broadcast: its listener is cancelled and not tracked
BridgeLifecycleReached ==
    /\ \E c1, c2 \in Registered : c1 # c2
    /\ TenantBroadcast \notin DOMAIN mgr.channel_subscriptions
    /\ TenantBroadcast \notin DOMAIN mgr.redis_tasks
    /\ \E t \in ListenersOf(tasks, TenantBroadcast) : tasks[t].cancelled
    /\ RunningListenersOf(tasks, TenantBroadcast) = {}

\* C7: a channel has at most one running listener task, and a running
\* listener task is the one redis_tasks tracks for its channel.
OneListenerPerChannel ==
    \A ch \in Channels :
        /\ Cardinality(RunningListenersOf(tasks, ch)) <= 1
        /\ \A t \in RunningListenersOf(tasks, ch) :
               ch \in DOMAIN mgr.redis_tasks /\ mgr.redis_tasks[ch] = t

\* C8: a step that tears a connection down leaves no listener task tracked
\* for a channel whose index set the teardown has emptied.
TeardownStopsListeners ==
    [][Registered \ DOMAIN mgr'.connection_info # {} =>
          \A ch \in Channels :
              (GetSet(mgr.channel_subscriptions, ch) # {}
                  /\ GetSet(mgr'.channel_subscriptions, ch) = {})
                  => ch \notin DOMAIN mgr'.redis_tasks
    ]_vars

\* the manager after disconnect has been called for every id of S
RECURSIVE DisconnectAll(_, _)
DisconnectAll(m, S) ==
    IF S = {} THEN m
    ELSE LET c == CHOOSE x \in S : TRUE
         IN  DisconnectAll(disconnect(m, c), S \ {c})

\* the registered connections whose last heartbeat is more than
\* TimeoutMinutes before the time t
Stale(t) ==
    {cid \in Registered :
        mgr.connection_info[cid].last_heartbeat + TimeoutMinutes < t}

ConnectEstablishes ==
    [][\A cid \in (DOMAIN endpoint') \ (DOMAIN endpoint) :
          transport'[cid] = "open" =>
              LET u == UserOfId(cid)
                  defaults == {UserChannel(u), TenantBroadcast}
                  frames == received'[cid]
              IN  /\ cid \in mgr'.active_connections
                  /\ cid \in DOMAIN mgr'.connection_info
                  /\ mgr'.connection_info[cid].user_id = u
                  /\ mgr'.connection_info[cid].tenant_id = TenantOf(u)
                  /\ Len(mgr'.connection_info[cid].subscriptions) = 2
                  /\ Range(mgr'.connection_info[cid].subscriptions) = defaults
                  /\ {ch \in DOMAIN mgr'.channel_subscriptions :
                         cid \in mgr'.channel_subscriptions[ch]} = defaults
                  /\ \A ch \in defaults :
                         /\ ch \in DOMAIN mgr'.redis_tasks
                         /\ mgr'.redis_tasks[ch] \in RunningListenersOf(tasks', ch)
                  /\ Cardinality({i \in DOMAIN frames :
                                     frames[i].type = "connect"}) = 1
                  /\ \E i \in DOMAIN frames :
                         /\ frames[i].type = "connect"
                         /\ frames[i].data.connection_id = cid
    ]_vars

\* C10: a second connection of a user has been accepted with every send to
\* it succeeding, and is registered beside the first
ConnectEstablishesReached ==
    \E c1, c2 \in Registered :
        /\ c1 # c2
        /\ UserOfId(c1) = UserOfId(c2)
        /\ transport[c2] = "open"
        /\ received[c2] # <<>>
        /\ received[c2][1] = ConnectFrame(c2, UserOfId(c2))

\* C11: send_to_user(U, N) appends one notification frame wrapping N to what
\* every connection registered for user U at the call has received, if it is
\* still registered after the call, and sends nothing to the connections of
\* other users.
SendToUserDelivers ==
    [][(lastFan' # lastFan /\ lastFan'.via = "user") =>
          LET frame == NotificationFrame(lastFan'.n)
              mine == {c \in Registered :
                          mgr.connection_info[c].user_id = lastFan'.user}
          IN  /\ \A c \in mine :
                     c \in DOMAIN mgr'.connection_info
                         => received'[c] = Append(received[c], frame)
              /\ \A c \in (DOMAIN received) \ mine :
                     received'[c] = received[c]
    ]_vars

\* C11: two connections of a user have both been sent the notification of a
\* send_to_user call, and a registered connection of another user has not
SendToUserDeliversReached ==
    /\ lastFan.via = "user"
    /\ \E c1, c2, c3 \in Registered :
           /\ c1 # c2
           /\ \A c \in {c1, c2} :
                  /\ mgr.connection_info[c].user_id = lastFan.user
                  /\ received[c][Len(received[c])] = NotificationFrame(lastFan.n)
           /\ mgr.connection_info[c3].user_id # lastFan.user
           /\ NotificationFrame(lastFan.n) \notin Range(received[c3])

\* the last frame a connection has been sent
LastFrame(c) == received[c][Len(received[c])]

\* C12: in every reachable state, handling a frame that is not JSON from a
\* registered connection appends exactly one error frame with error_code
\* invalid_json to what that connection has received, sends nothing to any
\* other connection and leaves the manager (registry, indices,
\* subscriptions) and the listener tasks as they are.
InvalidJsonAnswered ==
    \A cid \in Registered, f \in ClientFrames :
        ~f.json =>
            LET w == on_receive(World, cid, f, now, TRUE)
            IN  /\ w.received[cid]
                       = Append(received[cid], ErrorFrame("invalid_json"))
                /\ \A c \in (DOMAIN received) \ {cid} :
                       w.received[c] = received[c]
                /\ w.mgr = mgr
                /\ w.tasks = tasks

\* C12: the last frame handled was not JSON; its connection is registered
\* with its two subscriptions and has been sent one error frame, the
\* invalid_json one, last; another registered connection has been sent its
\* three set-up frames only
InvalidJsonAnsweredReached ==
    /\ ~lastInput.frame.json
    /\ lastInput.ok
    /\ lastInput.cid \in Registered
    /\ Len(mgr.connection_info[lastInput.cid].subscriptions) = 2
    /\ LastFrame(lastInput.cid) = ErrorFrame("invalid_json")
    /\ Cardinality({i \in DOMAIN received[lastInput.cid] :
                       received[lastInput.cid][i].type = "error"}) = 1
    /\ \E c \in Registered \ {lastInput.cid} : Len(received[c]) = 3

\* C13: in every reachable state, handling a subscribe or unsubscribe frame
\* that carries no channel changes nothing, whatever the connection: no frame
\* is sent, and the manager and the listener tasks are as they were.
MissingChannelIgnored ==
    \A cid \in ConnIds, f \in SubscriptionFrames, ok \in BOOLEAN :
        f.channel = "" => handle_message(World, cid, f, now, ok) = World

\* C13: the last frame handled was a subscribe or unsubscribe frame without
\* channel from a registered connection, which has been sent its three
\* set-up frames only and has its two subscriptions
MissingChannelIgnoredReached ==
    /\ lastInput.frame.json
    /\ lastInput.frame.type \in {"subscribe", "unsubscribe"}
    /\ lastInput.frame.channel = ""
    /\ lastInput.cid \in Registered
    /\ Len(received[lastInput.cid]) = 3
    /\ Len(mgr.connection_info[lastInput.cid].subscriptions) = 2
    /\ DOMAIN tasks = {mgr.redis_tasks[ch] : ch \in DOMAIN mgr.redis_tasks}

\* C14: in every reachable state, subscribe_to_channel and
\* unsubscribe_from_channel for a connection id that is not registered change
\* nothing: no index entry, no listener task, no frame.
UnknownConnectionNoOp ==
    \A cid \in ConnIds \ Registered, ch \in Channels, ok \in BOOLEAN :
        /\ subscribe_to_channel(World, cid, ch, ok) = World
        /\ unsubscribe_from_channel(World, cid, ch, ok) = World

\* C14: the connect frame of the only connection accepted so far could not
\* be sent, so the endpoint's two subscribe_to_channel calls found the id
\* unregistered: there is no index entry and no listener task
UnknownConnectionNoOpReached ==
    /\ \E cid \in DOMAIN endpoint :
           /\ DOMAIN endpoint = {cid}
           /\ cid \notin Registered
           /\ received[cid] = <<>>
    /\ mgr.channel_subscriptions = EmptyDict
    /\ mgr.redis_tasks = EmptyDict
    /\ tasks = EmptyDict
    /\ mgr.initialized

\* C15: in every reachable state and for every connection with a stored
\* socket, a send that raises leaves the connection unregistered and
\* delivers nothing, and a later send to it is not attempted; the same holds
\* when the failing send is the reply of a frame handler (ack, heartbeat
\* reply, error frame), a notification of a fan-out, or the connect frame of
\* a new connection.
SendFailureTearsDown ==
    /\ \A cid \in mgr.active_connections :
           /\ \A frame \in {HeartbeatFrame, ErrorFrame("invalid_json"),
                            NotificationFrame(Notification(0, "", ""))} :
                  LET w == send_to_connection(World, cid, frame, FALSE)
                  IN  /\ cid \notin w.mgr.active_connections
                      /\ cid \notin DOMAIN w.mgr.connection_info
                      /\ w.received = received
                      /\ send_to_connection(w, cid, frame, TRUE) = w
           /\ \A f \in ClientFrames :
                  LET sent == on_receive(World, cid, f, now, TRUE)
                      failed == on_receive(World, cid, f, now, FALSE)
                  IN  sent.received # received
                          => /\ cid \notin failed.mgr.active_connections
                             /\ cid \notin DOMAIN failed.mgr.connection_info
                             /\ failed.received = received
           /\ LET w == fan_out(World, <<cid>>,
                               NotificationFrame(Notification(0, "", "")),
                               [transport EXCEPT ![cid] = "dead"])
              IN  cid \notin w.mgr.active_connections /\ w.received = received
    /\ \A u \in Users :
           LET cid == <<u, Cardinality(DOMAIN endpoint) + 1>>
               w == connect([World EXCEPT !.received = Put(@, cid, <<>>)],
                            cid, u, TenantOf(u), now, FALSE)
           IN  /\ cid \notin w.mgr.active_connections
               /\ cid \notin DOMAIN w.mgr.connection_info
               /\ w.received[cid] = <<>>

\* C15: the heartbeat reply of the last frame handled raised: its connection
\* is not registered any more, although its endpoint still runs, and the
\* reply is not among the frames it has been sent
SendFailureTearsDownReached ==
    /\ lastInput.frame.type = "heartbeat"
    /\ ~lastInput.ok
    /\ lastInput.cid \in DOMAIN endpoint
    /\ endpoint[lastInput.cid] = "receive"
    /\ lastInput.cid \notin mgr.active_connections
    /\ lastInput.cid \notin Registered
    /\ HeartbeatFrame \notin Range(received[lastInput.cid])
    /\ Registered # {}

\* C16: whenever the last message on the bus was published by a
\* NotificationService method, every running listener of its channel is
\* subscribed to the topic it went to and has it in its inbox or has fanned
\* it out already.
ServicePublishReachesListeners ==
    published.service =>
        \A t \in DOMAIN tasks :
            (~tasks[t].cancelled /\ tasks[t].channel = published.n.channel)
                => /\ ~published.raised
                   /\ listener_topic(tasks[t].channel) = published.topic
                   /\ \/ t \in DOMAIN inbox /\ published.n \in Range(inbox[t])
                      \/ lastFan.n = published.n

\* the connection is subscribed to both default channels and each of them
\* has a running listener
DefaultsSubscribed(m, ts, cid) ==
    \A ch \in {UserChannel(UserOfId(cid)), TenantBroadcast} :
        /\ ch \in Range(m.connection_info[cid].subscriptions)
        /\ cid \in GetSet(m.channel_subscriptions, ch)
        /\ OneTrackedListener(m, ts, ch)

\* C17: a step that sends the connect frame to a connection leaves the
\* connection registered and subscribed to both default channels, each with
\* its listener.
ConnectAckAfterSubscriptions ==
    [][\A cid \in DOMAIN received' :
          (/\ ConnectFrame(cid, UserOfId(cid)) \in Range(received'[cid])
           /\ cid \in DOMAIN received
                  => ConnectFrame(cid, UserOfId(cid)) \notin Range(received[cid]))
              => /\ cid \in DOMAIN mgr'.connection_info
                 /\ DefaultsSubscribed(mgr', tasks', cid)
    ]_vars

MonitorRespawned ==
    [][(\E cid \in DOMAIN endpoint' :
            endpoint'[cid] = "subscribe_user"
                /\ (cid \in DOMAIN endpoint => endpoint[cid] # "subscribe_user"))
          => monitor' = "sleeping"
    ]_vars

\* C19: a scan of the heartbeat monitor in which the Redis delete of some
\* evicted connection raises still tears down every connection that had
\* timed out when the scan began, and no other.
ScanSurvivesFailure ==
    [][(<<lastScan, storeFailed>>' # <<lastScan, storeFailed>>
          /\ storeFailed' # {})
          => /\ storeFailed' \subseteq TimedOut(mgr, now)
             /\ mgr'.active_connections
                    = mgr.active_connections \ TimedOut(mgr, now)
             /\ DOMAIN mgr'.connection_info = Registered \ TimedOut(mgr, now)
    ]_vars

\* C19: the Redis delete of a connection raised in the last scan; a
\* connection that came later in the scan's list, whose client is still there
\* and whose endpoint still runs, is no longer registered, and a connection
\* that had not timed out still is
ScanSurvivesFailureReached ==
    /\ lastScan = now
    /\ \E c1 \in storeFailed, c2 \in (DOMAIN endpoint) \ storeFailed :
           /\ c1[2] < c2[2]
           /\ endpoint[c2] = "receive"
           /\ transport[c2] = "open"
           /\ c1 \notin Registered
           /\ c2 \notin Registered
           /\ c2 \notin mgr.active_connections
    /\ Registered # {}

\* C29: every notification for tenant:broadcast that a connection has been
\* sent carries the tenant id of that connection's tenant.
BroadcastTenantIsolated ==
    \A cid \in DOMAIN received :
        \A i \in DOMAIN received[cid] :
            (/\ received[cid][i].type = "notification"
             /\ received[cid][i].data.channel = TenantBroadcast)
                => received[cid][i].data.tenant_id = TenantOf(UserOfId(cid))

\* C30: the index set of user:{U}:notifications holds connections of user U
\* only.
UserChannelOwned ==
    \A u \in Users :
        \A cid \in GetSet(mgr.channel_subscriptions, UserChannel(u)) :
            UserOfId(cid) = u

\* C21: a step in which a listener task skips a bus message that does not
\* decode sends nothing and leaves the manager and every listener task,
\* itself included, as they are; and every step in which a listener fans
\* out a well-formed message delivers it to every connection subscribed to
\* the channel whose client is there.
SkippedMessageHarmless ==
    [][/\ busLog'.skipped # busLog.skipped
             => mgr' = mgr /\ tasks' = tasks /\ received' = received
       /\ (lastFan' # lastFan /\ lastFan'.via = "channel")
             => \A c \in GetSet(mgr.channel_subscriptions, lastFan'.name) :
                    (c \in mgr.active_connections /\ transport[c] = "open")
                        => received'[c]
                               = Append(received[c], NotificationFrame(lastFan'.n))
    ]_vars

\* C21: the only listener of a channel has skipped a message and is still
\* the channel's tracked, running listener; the last fan-out was on that
\* channel and a subscribed connection has been sent its notification last
SkippedMessageHarmlessReached ==
    /\ lastFan.via = "channel"
    /\ \E t \in busLog.skipped :
           /\ ListenersOf(tasks, lastFan.name) = {t}
           /\ OneTrackedListener(mgr, tasks, lastFan.name)
    /\ \E c \in GetSet(mgr.channel_subscriptions, lastFan.name) :
           LastFrame(c) = NotificationFrame(lastFan.n)

\* C22: a step in which a bus failure ends a listener task ends that task
\* only, sends nothing, changes nothing of the manager but redis_tasks,
\* keeps the tracked listener of every other channel and leaves the channel
\* without a live tracked listener; and a step in which a registered
\* connection's subscribe frame is handled leaves the channel with a running
\* tracked listener, a new task when there was no live tracked one.
ListenerFailureContained ==
    [][/\ busLog'.failed # busLog.failed
             => LET d == CHOOSE x \in busLog'.failed \ busLog.failed : TRUE
                    t == d[1]
                    ch == d[2]
                IN  /\ tasks' = Del(tasks, t)
                    /\ received' = received
                    /\ [mgr' EXCEPT !.redis_tasks = mgr.redis_tasks] = mgr
                    /\ \A o \in (DOMAIN mgr.redis_tasks) \ {ch} :
                           /\ o \in DOMAIN mgr'.redis_tasks
                           /\ mgr'.redis_tasks[o] = mgr.redis_tasks[o]
                    /\ \/ ch \notin DOMAIN mgr'.redis_tasks
                       \/ mgr'.redis_tasks[ch] \notin DOMAIN tasks'
       /\ (/\ lastInput' # lastInput
           /\ lastInput'.frame.type = "subscribe"
           /\ lastInput'.frame.channel # ""
           /\ lastInput'.cid \in Registered)
             => LET ch == lastInput'.frame.channel
                IN  /\ ch \in DOMAIN mgr'.redis_tasks
                    /\ mgr'.redis_tasks[ch] \in DOMAIN tasks'
                    /\ ~tasks'[mgr'.redis_tasks[ch]].cancelled
                    /\ (\/ ch \notin DOMAIN mgr.redis_tasks
                        \/ mgr.redis_tasks[ch] \notin DOMAIN tasks)
                           => mgr'.redis_tasks[ch] \notin DOMAIN tasks
    ]_vars

\* C22: the listener of a channel has ended by a bus failure; the only
\* connection there is has sent a subscribe frame for that channel since,
\* and the channel has one running tracked listener again, while another
\* channel still has its listener
ListenerFailureContainedReached ==
    /\ Cardinality(DOMAIN endpoint) = 1
    /\ lastInput.frame.type = "subscribe"
    /\ lastInput.cid \in Registered
    /\ \E d \in busLog.failed :
           /\ d[2] = lastInput.frame.channel
           /\ OneTrackedListener(mgr, tasks, d[2])
           /\ \E o \in (DOMAIN mgr.redis_tasks) \ {d[2]} :
                  OneTrackedListener(mgr, tasks, o)

\* C26: in every reachable state, the first frame a connection has received
\* is its CONNECT confirmation: no notification of a send_to_user,
\* send_to_tenant or send_to_channel call precedes it.
ConnectAckFirst ==
    \A c \in DOMAIN received :
        received[c] # <<>> => received[c][1].type = "connect"

\* C28: in every step in which the heartbeat monitor disconnects a
\* registered connection, the last heartbeat of that connection is older
\* than the threshold at that moment: a connection whose heartbeat was
\* handled after the scan listed it is not evicted.
MonitorEvictsOnlyStale ==
    [][(scan # <<>> /\ scan' = Tail(scan) /\ Head(scan) \in Registered)
          => Head(scan) \in TimedOut(mgr, now)]_vars

\* the notifications for channel ch among the frames a connection received
NotificationsOf(c, ch) ==
    SelectSeq(received[c],
              LAMBDA f : f.type = "notification" /\ f.data.channel = ch)

\* C23: in every reachable state, the notifications for one channel that a
\* connection has received through the channel's bus listener are in the
\* order in which the bus delivered them (the ids grow) and none of them
\* has arrived twice.
ChannelOrderKept ==
    \A c \in DOMAIN received :
        LET ns == NotificationsOf(c, TenantBroadcast)
        IN  \A i, j \in DOMAIN ns : i < j => ns[i].data.id < ns[j].data.id

\* C24: in every step that delivers a notification for a channel to a
\* connection, the local index of that channel is not empty: once the last
\* subscriber has unsubscribed, a fan-out that copied the index before
\* sends no more.
NoDeliveryAfterEmptyIndex ==
    [][\A c \in DOMAIN received :
          (/\ Len(received'[c]) = Len(received[c]) + 1
           /\ received'[c][Len(received'[c])].type = "notification")
          => GetSet(mgr.channel_subscriptions,
                    received'[c][Len(received'[c])].data.channel) # {}]_vars

\* C27: in every reachable state, a notification for channel X that a
\* connection has received after the ACK of its unsubscribe from X is
\* preceded by the ACK of a later subscribe to X.
NoNotificationAfterUnsubscribeAck ==
    \A c \in DOMAIN received :
        \A i, j \in DOMAIN received[c] :
            (/\ i < j
             /\ received[c][i] = AckFrame("unsubscribe", TenantBroadcast)
             /\ received[c][j].type = "notification"
             /\ received[c][j].data.channel = TenantBroadcast)
            => \E k \in (i + 1) .. (j - 1) :
                   received[c][k] = AckFrame("subscribe", TenantBroadcast)

\* C25: a listener task that is inside a send_to_channel fan-out eventually
\* leaves it, also when the send to one connection of the fan-out does not
\* complete: the other connections of its copy are sent the notification
\* and the listener gets back to the next bus message.
FanOutEnds ==
    \A t \in TaskIds : (t \in DOMAIN fans) ~> (t \notin DOMAIN fans)

====
